---- MODULE Spec2Model ----
(***************************************************************************)
(* CoplanarSketch (src/CoplanarSketch2.06.py): EdgeDataCollector.          *)
(*                                                                         *)
(* A model of create_sketch_from_selection as a state machine over the     *)
(* host document (objects, one transaction), the destination sketch        *)
(* (geometry, constraints), the macro's local variables and its two        *)
(* output channels (info_display, FreeCAD.Console): Spec, SpecFourEdges,   *)
(* SpecChains.  SpecSelect follows select_coplanar_edges, SpecEstimate     *)
(* the two plane functions called on their own.                            *)
(*                                                                         *)
(* Lengths are integers: one unit is 0.00005 of the host's length unit, so *)
(* that the default point tolerance 1e-4 is 2 and the tolerance 0.001 is   *)
(* 20.  Vector lengths are compared by their squares.  A direction that    *)
(* the code normalizes is kept as an integer vector of the same direction. *)
(* A centroid (a sum divided by a count) is kept as the pair sum, count.   *)
(***************************************************************************)
EXTENDS Integers, Sequences, FiniteSets, TLC

\* ------------------------------------------------------------------ bounds
\* The longest selection (sub-objects of the host selection) explored.
MaxSel == 3
\* The most host rejections of non-fatal requests (Coincident constraint,
\* setVirtualSpace) explored in one invocation.
MaxFaults == 1
\* The most vertices handed to the plane estimate when it is followed alone.
MaxPts == 3

\* --------------------------------------------------------- program constants
\* is_close's default tolerance, 1e-4.
TolPoint == 2
\* tolerance = 0.001 of create_sketch_from_selection.
tolerance == 20

\* --------------------------------------------------------------- vectors
Vec(x, y, z) == <<x, y, z>>

VSub(p, q) == <<p[1] - q[1], p[2] - q[2], p[3] - q[3]>>

VAdd(p, q) == <<p[1] + q[1], p[2] + q[2], p[3] + q[3]>>

VScale(k, p) == <<k * p[1], k * p[2], k * p[3]>>

Dot(p, q) == p[1] * q[1] + p[2] * q[2] + p[3] * q[3]

Cross(p, q) ==
    <<p[2] * q[3] - p[3] * q[2], p[3] * q[1] - p[1] * q[3], p[1] * q[2] - p[2] * q[1]>>

\* The square of Vector.Length.
Len2(p) == Dot(p, p)

\* is_close(p1, p2, tol): (p1 - p2).Length < tol.
is_close(p1, p2, tol) == Len2(VSub(p1, p2)) < tol * tol

Min(S) == CHOOSE x \in S : \A y \in S : x <= y

Abs(x) == IF x < 0 THEN -x ELSE x

RECURSIVE Gcd(_, _)
Gcd(a, b) == IF b = 0 THEN a ELSE Gcd(b, a % b)

\* Vector.normalize(): the vector of the same direction and a fixed length.
\* Here it is the shortest integer vector of that direction, so that two
\* vectors have the same normalize exactly when they are parallel and point
\* the same way; the zero vector is left as it is.
normalize(p) ==
    LET g == Gcd(Gcd(Abs(p[1]), Abs(p[2])), Abs(p[3]))
    IN  IF g = 0 THEN p ELSE <<p[1] \div g, p[2] \div g, p[3] \div g>>

\* ------------------------------------------------------ the selection
\* Points of the explored selections.  PA, PB, PC lie on a line 10 units
\* (0.0005) apart: PA-PB and PB-PC are closer than `tolerance`, PA-PC is not.
PA == Vec(0, 0, 0)
PB == Vec(10, 0, 0)
PC == Vec(20, 0, 0)
PD == Vec(0, 100, 0)

\* A selected sub-object: an edge with its two vertex points, or a face.
Edge(p, q) == [kind |-> "Edge", v |-> <<p, q>>]
Face == [kind |-> "Face"]

SubObjectPool ==
    {Edge(PA, PD), Edge(PC, PD), Edge(PB, PD), Edge(PA, PB), Face}

Selections == UNION {[1..n -> SubObjectPool] : n \in 0..MaxSel}

\* edges.extend([o for o in sel.SubObjects if isinstance(o, Part.Edge)])
RECURSIVE EdgesOf(_)
EdgesOf(sel) ==
    IF sel = <<>> THEN <<>>
    ELSE (IF Head(sel).kind = "Edge" THEN <<Head(sel).v>> ELSE <<>>) \o EdgesOf(Tail(sel))

\* ------------------------------------------------ plane and placement
\* all_vertices = [v.Point for e in edges for v in e.Vertexes]
RECURSIVE AllVertices(_)
AllVertices(es) ==
    IF es = <<>> THEN <<>> ELSE <<Head(es)[1], Head(es)[2]>> \o AllVertices(Tail(es))

\* unique_vertices: a point is kept when no kept point is is_close to it.
RECURSIVE Dedup(_, _)
Dedup(ps, kept) ==
    IF ps = <<>> THEN kept
    ELSE Dedup(Tail(ps),
               IF \A k \in 1..Len(kept) : ~is_close(Head(ps), kept[k], TolPoint)
               THEN Append(kept, Head(ps)) ELSE kept)

UniqueVertices(es) == Dedup(AllVertices(es), <<>>)

RECURSIVE VSum(_)
VSum(ps) == IF ps = <<>> THEN Vec(0, 0, 0) ELSE VAdd(Head(ps), VSum(Tail(ps)))

\* The index triples i < j < k in the order of the three nested loops.
TripleBefore(s, t) ==
    \/ s[1] < t[1]
    \/ s[1] = t[1] /\ s[2] < t[2]
    \/ s[1] = t[1] /\ s[2] = t[2] /\ s[3] < t[3]

Triples(n) == {t \in (1..n) \X (1..n) \X (1..n) : t[1] < t[2] /\ t[2] < t[3]}

TripleNormal(vs, t) == Cross(VSub(vs[t[2]], vs[t[1]]), VSub(vs[t[3]], vs[t[1]]))

\* The greatest common divisor of a set of naturals (0 for none, or all 0).
RECURSIVE GcdOf(_)
GcdOf(S) ==
    IF S = {} THEN 0
    ELSE LET x == CHOOSE y \in S : TRUE IN Gcd(x, GcdOf(S \ {x}))

\* n.Length of the triples' cross products, for comparing them with each
\* other: the squared length after the cross products are all divided by the
\* common divisor g of their components (the quotients are small numbers).
Magnitude2(n, g) ==
    IF g = 0 THEN 0 ELSE Len2(<<n[1] \div g, n[2] \div g, n[3] \div g>>)

\* best_normal with >= for > in line 130: the last triple of largest
\* magnitude, the zero vector when every magnitude is 0.
BestNormalOrZero(vs) ==
    LET T == Triples(Len(vs))
        g == GcdOf({Abs(TripleNormal(vs, t)[c]) : t \in T, c \in 1..3})
        mag == [t \in T |-> Magnitude2(TripleNormal(vs, t), g)]
    IN  IF T = {} THEN <<>>
        ELSE LET best == CHOOSE t \in T :
                            \A u \in T :
                                \/ mag[u] < mag[t]
                                \/ mag[u] = mag[t] /\ (u = t \/ TripleBefore(u, t))
             IN  normalize(TripleNormal(vs, best))

\* best_normal: the cross product of the first triple of largest magnitude
\* (n.Length > best_magnitude is strict), None (here <<>>) when every
\* magnitude is 0.  vectors[j] - vectors[i] equals vertices[j] - vertices[i].
BestNormal(vs) ==
    LET T == Triples(Len(vs))
        g == GcdOf({Abs(TripleNormal(vs, t)[c]) : t \in T, c \in 1..3})
        mag == [t \in T |-> Magnitude2(TripleNormal(vs, t), g)]
        pos == {t \in T : mag[t] > 0}
    IN  IF pos = {} THEN <<>>
        ELSE LET best == CHOOSE t \in pos :
                            \A u \in pos :
                                \/ mag[u] < mag[t]
                                \/ mag[u] = mag[t] /\ (u = t \/ TripleBefore(t, u))
             IN  normalize(TripleNormal(vs, best))

\* The estimate without the sign resolution of lines 136-138.
EstimateUnsigned(vertices, mc) ==
    IF Len(vertices) < 3
    THEN [normal |-> Vec(0, 0, 1), center |-> [sum |-> Vec(0, 0, 0), n |-> 1]]
    ELSE LET bn == BestNormal(vertices)
         IN  [normal |-> IF bn = <<>> THEN Vec(0, 0, 1) ELSE bn,
              center |-> [sum |-> VSum(vertices), n |-> Len(vertices)]]

\* calculate_robust_plane_normal_and_placement(vertices) with
\* self.edge_mass_center = mc.  center is sum / n; delta = center - mc has
\* the direction of sum - n * mc, and its length exceeds 1e-6 exactly when
\* that integer vector is not the zero vector (n is small).
calculate_robust_plane_normal_and_placement(vertices, mc) ==
    IF Len(vertices) < 3
    THEN [normal |-> Vec(0, 0, 1), center |-> [sum |-> Vec(0, 0, 0), n |-> 1]]
    ELSE LET n == Len(vertices)
             sum == VSum(vertices)
             bn == BestNormal(vertices)
             best_normal == IF bn = <<>> THEN Vec(0, 0, 1) ELSE bn
             delta == VSub(sum, VScale(n, mc))
         IN  [normal |-> IF delta # Vec(0, 0, 0) /\ Dot(delta, best_normal) < 0
                         THEN VScale(-1, best_normal) ELSE best_normal,
              center |-> [sum |-> sum, n |-> n]]

\* Only a normal along Z counts as near Z.
NearZExact(p) == p[1] = 0 /\ p[2] = 0 /\ p[3] # 0

\* abs(normal.dot(z_axis)) > 0.999 for the unit vector of direction p:
\* z^2 * 10^6 > 999^2 * (x^2 + y^2 + z^2), that is
\* (10^6 - 999^2) * z^2 > 999^2 * (x^2 + y^2).
NearZ(p) == 1999 * p[3] * p[3] > 998001 * (p[1] * p[1] + p[2] * p[2])

\* create_robust_placement(normal, center).
create_robust_placement(normal, center) ==
    LET nrm == IF Len2(normal) > 0 THEN normalize(normal) ELSE Vec(0, 0, 1)
    IN  [Base |-> center,
         Rotation |->
            IF NearZ(nrm)
            THEN (IF nrm[3] > 0 THEN [kind |-> "identity", to |-> Vec(0, 0, 1)]
                  ELSE [kind |-> "aboutX180", to |-> Vec(0, 0, -1)])
            ELSE [kind |-> "arc", to |-> nrm]]

\* placement.inverse().multVec(pt): the rotation's inverse applied to
\* pt - Base, in units of 1 / Base.n.  A shortest-arc rotation is kept by
\* name (the vector it maps Z to) with the vector it is applied to.
multVecInverse(pl, pt) ==
    LET d == VSub(VScale(pl.Base.n, pt), pl.Base.sum)
    IN  [scale |-> pl.Base.n,
         frame |-> IF pl.Rotation.kind = "arc" THEN pl.Rotation.to ELSE Vec(0, 0, 1),
         vec |-> IF pl.Rotation.kind = "aboutX180" THEN <<d[1], -d[2], -d[3]>> ELSE d]

\* ---------------------------------------------------- the vertex map
\* A lookup by the exact key: a point joins a group only when it equals the
\* group's key.
RegisterExact(vm, pt, ref) ==
    LET found == {k \in 1..Len(vm) : pt = vm[k].key}
    IN  IF found # {}
        THEN [vm EXCEPT ![Min(found)].refs = Append(@, ref)]
        ELSE Append(vm, [key |-> pt, refs |-> <<ref>>])

\* A scan that keeps the last key is_close to pt instead of the first.
RegisterLast(vm, pt, ref) ==
    LET found == {k \in 1..Len(vm) : is_close(pt, vm[k].key, tolerance)}
    IN  IF found # {}
        THEN [vm EXCEPT ![CHOOSE k \in found : \A h \in found : h <= k].refs = Append(@, ref)]
        ELSE Append(vm, [key |-> pt, refs |-> <<ref>>])

\* A scan that puts the reference in every group whose key is_close to pt.
RegisterEvery(vm, pt, ref) ==
    LET found == {k \in 1..Len(vm) : is_close(pt, vm[k].key, tolerance)}
    IN  IF found # {}
        THEN [k \in 1..Len(vm) |->
                 IF k \in found THEN [vm[k] EXCEPT !.refs = Append(@, ref)] ELSE vm[k]]
        ELSE Append(vm, [key |-> pt, refs |-> <<ref>>])

\* vertex_map is a dict in insertion order: a sequence of groups, each with
\* its key (the point that created it) and its (geo_index, vertex_id) refs.
\* found_key is the first key is_close to pt; without one pt opens a group.
Register(vm, pt, ref) ==
    LET found == {k \in 1..Len(vm) : is_close(pt, vm[k].key, tolerance)}
    IN  IF found # {}
        THEN [vm EXCEPT ![Min(found)].refs = Append(@, ref)]
        ELSE Append(vm, [key |-> pt, refs |-> <<ref>>])

\* A degenerate test that only sees identical endpoints.
IsIdentical(e) == e[1] = e[2]

\* if is_close(start_global, end_global, tolerance): ... continue
IsDegenerate(e) == is_close(e[1], e[2], tolerance)

\* A chain: each reference with the next one.
GroupRequestsChain(g) ==
    [k \in 1..(Len(g.refs) - 1) |-> [key |-> g.key, a |-> g.refs[k], b |-> g.refs[k + 1]]]

\* The Coincident constraints of one group: refs[0] with each of refs[1:].
GroupRequests(g) ==
    [k \in 1..(Len(g.refs) - 1) |-> [key |-> g.key, a |-> g.refs[1], b |-> g.refs[k + 1]]]

\* The Coincident constraints the two nested loops ask for, in order.
RECURSIVE Requests(_)
Requests(vm) ==
    IF vm = <<>> THEN <<>> ELSE GroupRequests(Head(vm)) \o Requests(Tail(vm))

\* ------------------------------------------------------------ the host
\* Objects derived from PartDesign::Body.
BodyNames == {"Body", "NewBody"}

Standalone == "<Standalone (Part Workbench)>"
NewBody == "<Create New Body (PartDesign)>"

\* An abort that leaves the document as it is.
AbortKeepsChanges(objs, snap) == objs

\* doc.abortTransaction(): the document is as openTransaction found it.
AbortTransaction(objs, snap) == snap

\* A removal that removes nothing.
RemoveNothing(objs, name) == objs

\* doc.removeObject(name) of an object the document holds.
RemoveObject(objs, name) == objs \ {name}

\* A mutation of the document, with the transaction's state when it is made.
Mut(op, t) == {<<op, t>>}

\* -------------------------------------------------------------- state
VARIABLES
    pc,                \* the position in create_sketch_from_selection
    doc,               \* FreeCAD.ActiveDocument is set
    selection,         \* the host selection's sub-objects
    objects,           \* the names of the document's objects
    txn,               \* the transaction: none, open, committed, aborted
    snapshot,          \* the document's objects when the transaction opened
    geometry,          \* the destination sketch's geometry, index 0 first
    constraints,       \* the destination sketch's constraints, index 0 first
    edges, placement, temp_sketch, final_sketch, target_body, sketch_created,
    item,
    ok,                \* the prompt's second result: "None" before the prompt
    i, block_constraints, vertex_map, coincident_added,
    ci,                \* the next Coincident request, an index of Requests
    hi,                \* the next entry of block_constraints to hide
    info_display,      \* the panel's text log
    console,           \* FreeCAD.Console: warnings and errors
    issued,            \* history: the Coincident requests made, with the answer
    hideReq,           \* history: the constraint indices setVirtualSpace was asked for
    muts,              \* history: each document mutation with txn when made
    raised,            \* history: the host call that raised into the except block
    faults,            \* history: the host rejections handled locally
    removals,          \* history: each removeObject of the temporary sketch
    \* select_coplanar_edges
    shape,             \* obj.Shape of selection[0].Object: its Edges and Faces
    collected_edges,   \* self.collected_edges: (edge, name) pairs
    plane_normal, plane_point, coplanar_edges,
    \* calculate_robust_plane_normal_and_placement, create_robust_placement
    points,            \* the vertices handed to the plane estimate
    reference,         \* self.edge_mass_center at the call
    estimate,          \* the normal and center returned
    given,             \* the normal handed to create_robust_placement
    built,             \* the placement returned
    rebuilt            \* the placement of the normal taken from built

host == <<doc, objects, txn, snapshot, geometry, constraints>>

locals ==
    <<edges, placement, temp_sketch, final_sketch, target_body, sketch_created,
      item, ok, i, block_constraints, vertex_map, coincident_added, ci, hi>>

out == <<info_display, console>>

hist == <<issued, hideReq, muts, raised, faults, removals>>

\* The variables of select_coplanar_edges.
chooser == <<shape, collected_edges, plane_normal, plane_point, coplanar_edges>>

\* The variables of the calls of the two plane functions.
estimator == <<points, reference, estimate, given, built, rebuilt>>

vars == <<pc, selection, host, locals, out, hist, chooser, estimator>>

\* None.
None == <<>>

\* select_coplanar_edges is not running: no shape is looked at.
ChooserIdle ==
    /\ shape = [Edges |-> <<>>, Faces |-> <<>>]
    /\ collected_edges = <<>>
    /\ plane_normal = None
    /\ plane_point = None
    /\ coplanar_edges = <<>>

\* No call of the plane functions is followed.
EstimatorIdle ==
    /\ points = <<>>
    /\ reference = Vec(0, 0, 0)
    /\ estimate = None
    /\ given = None
    /\ built = None
    /\ rebuilt = None

NoPlacement ==
    [Base |-> [sum |-> Vec(0, 0, 0), n |-> 1],
     Rotation |-> [kind |-> "none", to |-> Vec(0, 0, 0)]]

Msg(level, text, arg) == [level |-> level, text |-> text, arg |-> arg]

\* self.edge_mass_center as __init__ leaves it.
edge_mass_center == Vec(0, 0, 0)

\* The state when the user presses "Create Sketch from Selection", with the
\* host selection one of sels; an active document holds one body.
Start(sels) ==
    /\ pc = "entry"
    /\ doc \in BOOLEAN
    /\ selection \in sels
    /\ objects = (IF doc THEN {"Body"} ELSE {})
    /\ txn = "none"
    /\ snapshot = {}
    /\ geometry = <<>>
    /\ constraints = <<>>
    /\ edges = <<>>
    /\ placement = NoPlacement
    /\ temp_sketch = "None"
    /\ final_sketch = "None"
    /\ target_body = "None"
    /\ sketch_created = FALSE
    /\ item = ""
    /\ ok = "None"
    /\ i = 1
    /\ block_constraints = <<>>
    /\ vertex_map = <<>>
    /\ coincident_added = 0
    /\ ci = 1
    /\ hi = 1
    /\ info_display = <<>>
    /\ console = <<>>
    /\ issued = <<>>
    /\ hideReq = <<>>
    /\ muts = {}
    /\ raised = "none"
    /\ faults = 0
    /\ removals = <<>>
    /\ ChooserIdle
    /\ EstimatorIdle

Init == Start(Selections)

\* A host call inside the try block raises: control goes to the except block.
Raise(site) ==
    /\ raised' = site
    /\ pc' = "except"

\* Lines 152-161: no document, or openTransaction.
Entry ==
    /\ pc = "entry"
    /\ UNCHANGED <<chooser, estimator>>
    /\ IF ~doc
       THEN /\ info_display' = Append(info_display, Msg("Error", "No active FreeCAD document.", -1))
            /\ pc' = "done"
            /\ UNCHANGED <<txn, snapshot>>
       ELSE /\ txn' = "open"
            /\ snapshot' = objects
            /\ pc' = "collect"
            /\ UNCHANGED info_display
    /\ UNCHANGED <<selection, doc, objects, geometry, constraints, locals, console, hist>>

\* Lines 164-184 without the abortTransaction of line 174.
CollectNoAbort ==
    /\ pc = "collect"
    /\ UNCHANGED <<chooser, estimator>>
    /\ edges' = EdgesOf(selection)
    /\ IF edges' = <<>>
       THEN /\ info_display' = Append(info_display, Msg("Error", "No edges selected.", -1))
            /\ UNCHANGED <<txn, objects>>
            /\ pc' = "finally"
            /\ UNCHANGED placement
       ELSE /\ LET np == calculate_robust_plane_normal_and_placement(
                            UniqueVertices(edges'), edge_mass_center)
               IN  placement' = create_robust_placement(np.normal, np.center)
            /\ pc' = "probe"
            /\ UNCHANGED <<info_display, txn, objects>>
    /\ UNCHANGED <<selection, doc, snapshot, geometry, constraints, temp_sketch,
                   final_sketch, target_body, sketch_created, item, ok, i,
                   block_constraints, vertex_map, coincident_added, ci, hi,
                   console, hist>>

\* Lines 164-184: the selected edges; without one, abort and return (the
\* finally block still runs); else the placement of the selection.
Collect ==
    /\ pc = "collect"
    /\ UNCHANGED <<chooser, estimator>>
    /\ edges' = EdgesOf(selection)
    /\ IF edges' = <<>>
       THEN /\ info_display' = Append(info_display, Msg("Error", "No edges selected.", -1))
            /\ txn' = "aborted"
            /\ objects' = AbortTransaction(objects, snapshot)
            /\ pc' = "finally"
            /\ UNCHANGED placement
       ELSE /\ LET np == calculate_robust_plane_normal_and_placement(
                            UniqueVertices(edges'), edge_mass_center)
               IN  placement' = create_robust_placement(np.normal, np.center)
            /\ pc' = "probe"
            /\ UNCHANGED <<info_display, txn, objects>>
    /\ UNCHANGED <<selection, doc, snapshot, geometry, constraints, temp_sketch,
                   final_sketch, target_body, sketch_created, item, ok, i,
                   block_constraints, vertex_map, coincident_added, ci, hi,
                   console, hist>>

\* Lines 186-188: the temporary sketch.
Probe ==
    /\ pc = "probe"
    /\ UNCHANGED <<chooser, estimator>>
    /\ \/ /\ objects' = objects \cup {"TempSketch"}
          /\ temp_sketch' = "TempSketch"
          /\ muts' = muts \cup Mut("addObject", txn)
          /\ \/ pc' = "prompt" /\ UNCHANGED raised
             \/ Raise("recompute")
       \/ /\ Raise("addObject")
          /\ UNCHANGED <<objects, temp_sketch, muts>>
    /\ UNCHANGED <<selection, doc, txn, snapshot, geometry, constraints, edges,
                   placement, final_sketch, target_body, sketch_created, item, ok, i,
                   block_constraints, vertex_map, coincident_added, ci, hi, out,
                   issued, hideReq, faults, removals>>

\* The options of the placement prompt (lines 190-191).
Options == {Standalone, NewBody} \cup (objects \cap BodyNames)

\* The test of line 197 with `and` for `or`.
DeclinedBoth(o, choice) == o # "True" /\ choice = ""

\* if not ok or not item (line 197).
Declined(o, choice) == o # "True" \/ choice = ""

\* Lines 192-202: the prompt; a declined prompt removes the temporary
\* sketch, aborts and returns (the finally block still runs).
Prompt ==
    /\ pc = "prompt"
    /\ UNCHANGED <<chooser, estimator>>
    /\ \E o \in {"True", "False"}, choice \in Options \cup {""} :
          /\ ok' = o
          /\ item' = choice
          /\ IF Declined(o, choice)
             THEN /\ info_display' = Append(info_display,
                                            Msg("Info", "Sketch creation cancelled by user.", -1))
                  /\ removals' = Append(removals,
                                        [present |-> temp_sketch \in objects, txn |-> txn])
                  /\ muts' = muts \cup Mut("removeObject", txn)
                  /\ txn' = "aborted"
                  /\ objects' = AbortTransaction(RemoveObject(objects, temp_sketch), snapshot)
                  /\ pc' = "finally"
             ELSE /\ pc' = "target"
                  /\ UNCHANGED <<info_display, removals, muts, txn, objects>>
    /\ UNCHANGED <<selection, doc, snapshot, geometry, constraints, edges, placement,
                   temp_sketch, final_sketch, target_body, sketch_created, i,
                   block_constraints, vertex_map, coincident_added, ci, hi, console,
                   issued, hideReq, raised, faults>>

\* final_sketch.getGlobalPlacement(): the temporary sketch's placement,
\* copied to Placement (line 206) or to AttachmentOffset (lines 215-216).
getGlobalPlacement == placement

\* Lines 204-219: the destination sketch, standalone or in a body.
Target ==
    /\ pc = "target"
    /\ UNCHANGED <<chooser, estimator>>
    /\ LET tb == IF item = Standalone THEN "None"
                 ELSE IF item = NewBody THEN "NewBody" ELSE item
           withBody == IF item = NewBody THEN objects \cup {"NewBody"} ELSE objects
           all == withBody \cup {"Sketch"}
       IN  \/ /\ objects' = all
              /\ target_body' = tb
              /\ final_sketch' = "Sketch"
              /\ muts' = muts \cup Mut("addObject", txn)
              /\ \/ pc' = "emit" /\ UNCHANGED raised
                 \/ Raise("recompute")
                 \/ item # Standalone /\ Raise("dropObject")
           \/ /\ objects' = withBody
              /\ target_body' = tb
              /\ muts' = IF item = NewBody THEN muts \cup Mut("addObject", txn) ELSE muts
              /\ Raise("addObject")
              /\ UNCHANGED final_sketch
           \/ /\ item = NewBody
              /\ Raise("addObject")
              /\ UNCHANGED <<objects, target_body, final_sketch, muts>>
    /\ i' = 1
    /\ UNCHANGED <<selection, doc, txn, snapshot, geometry, constraints, edges,
                   placement, temp_sketch, sketch_created, item, ok, block_constraints,
                   vertex_map, coincident_added, ci, hi, out, issued, hideReq,
                   faults, removals>>

\* Where control goes when the loop over the edges ends: the first
\* Coincident request, else the first Block constraint to hide, else commit.
AfterEdges(vm, bc) ==
    IF Requests(vm) # <<>> THEN "coincident"
    ELSE IF bc # <<>> THEN "hide" ELSE "commit"

AfterRequests(bc) == IF bc # <<>> THEN "hide" ELSE "commit"

\* A Block constraint on the geometry after the one just added.
BlockNext(geo_index) == [type |-> "Block", refs |-> <<geo_index + 1>>, hidden |-> FALSE]

Block(geo_index) == [type |-> "Block", refs |-> <<geo_index>>, hidden |-> FALSE]

Coincident(a, b) == [type |-> "Coincident", refs |-> a \o b, hidden |-> FALSE]

LineSegment(pl, e, c) ==
    [start |-> multVecInverse(pl, e[1]), end |-> multVecInverse(pl, e[2]),
     construction |-> c]

\* Lines 225-248: one pass of the loop over the edges.
Emit ==
    /\ pc = "emit"
    /\ UNCHANGED <<chooser, estimator>>
    /\ i <= Len(edges)
    /\ LET e == edges[i]
           geo_index == Len(geometry)
           constraint_idx == Len(constraints)
           vm == Register(Register(vertex_map, e[1], <<geo_index, 1>>), e[2], <<geo_index, 2>>)
           bc == Append(block_constraints, constraint_idx)
           last == i = Len(edges)
       IN  IF IsDegenerate(e)
           THEN /\ console' = Append(console, Msg("Warning", "Skipped degenerate edge", i))
                /\ pc' = IF last THEN AfterEdges(vertex_map, block_constraints) ELSE "emit"
                /\ UNCHANGED <<geometry, constraints, vertex_map, block_constraints,
                               muts, raised>>
           ELSE /\ UNCHANGED console
                /\ \/ /\ geometry' = Append(geometry, LineSegment(getGlobalPlacement, e, TRUE))
                      /\ vertex_map' = vm
                      /\ constraints' = Append(constraints, Block(geo_index))
                      /\ block_constraints' = bc
                      /\ muts' = muts \cup Mut("addGeometry", txn)
                                      \cup Mut("setConstruction", txn)
                                      \cup Mut("addConstraint", txn)
                      /\ pc' = IF last THEN AfterEdges(vm, bc) ELSE "emit"
                      /\ UNCHANGED raised
                   \/ /\ Raise("addGeometry")
                      /\ UNCHANGED <<geometry, constraints, vertex_map,
                                     block_constraints, muts>>
                   \/ /\ Raise("setConstruction")
                      /\ geometry' = Append(geometry, LineSegment(getGlobalPlacement, e, FALSE))
                      /\ muts' = muts \cup Mut("addGeometry", txn)
                      /\ UNCHANGED <<constraints, vertex_map, block_constraints>>
                   \/ /\ Raise("addConstraint")
                      /\ geometry' = Append(geometry, LineSegment(getGlobalPlacement, e, TRUE))
                      /\ vertex_map' = vm
                      /\ muts' = muts \cup Mut("addGeometry", txn)
                                      \cup Mut("setConstruction", txn)
                      /\ UNCHANGED <<constraints, block_constraints>>
    /\ i' = i + 1
    /\ UNCHANGED <<selection, doc, objects, txn, snapshot, edges, placement,
                   temp_sketch, final_sketch, target_body, sketch_created, item, ok,
                   coincident_added, ci, hi, info_display, issued, hideReq, faults,
                   removals>>

\* The Coincident request without its try/except: a rejection goes to the
\* except block of the operation.
CoincidentStepNoCatch ==
    /\ pc = "coincident"
    /\ UNCHANGED <<chooser, estimator>>
    /\ ci <= Len(Requests(vertex_map))
    /\ LET r == Requests(vertex_map)[ci]
       IN  \/ /\ constraints' = Append(constraints, Coincident(r.a, r.b))
              /\ coincident_added' = coincident_added + 1
              /\ issued' = Append(issued, [a |-> r.a, b |-> r.b, ok |-> TRUE])
              /\ muts' = muts \cup Mut("addConstraint", txn)
              /\ UNCHANGED <<console, faults>>
           \/ /\ faults < MaxFaults
              /\ faults' = faults + 1
              /\ issued' = Append(issued, [a |-> r.a, b |-> r.b, ok |-> FALSE])
              /\ UNCHANGED <<constraints, coincident_added, muts, console>>
    /\ ci' = ci + 1
    /\ IF Len(issued') > 0 /\ ~issued'[Len(issued')].ok
       THEN Raise("addConstraint")
       ELSE /\ pc' = IF ci = Len(Requests(vertex_map))
                     THEN AfterRequests(block_constraints) ELSE "coincident"
            /\ UNCHANGED raised
    /\ UNCHANGED <<selection, doc, objects, txn, snapshot, geometry, edges, placement,
                   temp_sketch, final_sketch, target_body, sketch_created, item, ok, i,
                   block_constraints, vertex_map, hi, info_display, hideReq,
                   removals>>

\* Lines 250-259: one Coincident request; a rejection is a warning.
CoincidentStep ==
    /\ pc = "coincident"
    /\ UNCHANGED <<chooser, estimator>>
    /\ ci <= Len(Requests(vertex_map))
    /\ LET r == Requests(vertex_map)[ci]
       IN  \/ /\ constraints' = Append(constraints, Coincident(r.a, r.b))
              /\ coincident_added' = coincident_added + 1
              /\ issued' = Append(issued, [a |-> r.a, b |-> r.b, ok |-> TRUE])
              /\ muts' = muts \cup Mut("addConstraint", txn)
              /\ UNCHANGED <<console, faults>>
           \/ /\ faults < MaxFaults
              /\ faults' = faults + 1
              /\ console' = Append(console,
                                   Msg("Warning", "Failed to add coincident constraint", ci))
              /\ issued' = Append(issued, [a |-> r.a, b |-> r.b, ok |-> FALSE])
              /\ UNCHANGED <<constraints, coincident_added, muts>>
    /\ ci' = ci + 1
    /\ pc' = IF ci = Len(Requests(vertex_map))
             THEN AfterRequests(block_constraints) ELSE "coincident"
    /\ UNCHANGED <<selection, doc, objects, txn, snapshot, geometry, edges, placement,
                   temp_sketch, final_sketch, target_body, sketch_created, item, ok, i,
                   block_constraints, vertex_map, hi, info_display, hideReq, raised,
                   removals>>

\* The setVirtualSpace call without its try/except: a failure goes to the
\* except block of the operation.
HideNoCatch ==
    /\ pc = "hide"
    /\ UNCHANGED <<chooser, estimator>>
    /\ hi <= Len(block_constraints)
    /\ LET idx == block_constraints[hi]
       IN  /\ hideReq' = Append(hideReq, idx)
           /\ \/ /\ constraints' = [constraints EXCEPT ![idx + 1].hidden = TRUE]
                 /\ UNCHANGED <<out, faults>>
              \/ /\ faults < MaxFaults
                 /\ faults' = faults + 1
                 /\ UNCHANGED <<out, constraints>>
    /\ hi' = hi + 1
    /\ IF faults' > faults
       THEN Raise("setVirtualSpace")
       ELSE /\ pc' = IF hi = Len(block_constraints) THEN "commit" ELSE "hide"
            /\ UNCHANGED raised
    /\ UNCHANGED <<selection, doc, objects, txn, snapshot, geometry, edges, placement,
                   temp_sketch, final_sketch, target_body, sketch_created, item, ok, i,
                   block_constraints, vertex_map, coincident_added, ci, issued, muts,
                   removals>>

\* Lines 261-266: hide one Block constraint; a failure is a warning.
Hide ==
    /\ pc = "hide"
    /\ UNCHANGED <<chooser, estimator>>
    /\ hi <= Len(block_constraints)
    /\ LET idx == block_constraints[hi]
       IN  /\ hideReq' = Append(hideReq, idx)
           /\ \/ /\ constraints' = [constraints EXCEPT ![idx + 1].hidden = TRUE]
                 /\ UNCHANGED <<out, faults>>
              \/ /\ faults < MaxFaults
                 /\ faults' = faults + 1
                 /\ info_display' = Append(info_display,
                        Msg("Warning", "Constraint index visibility could not be set", idx))
                 /\ console' = Append(console, Msg("Warning", "Virtual space set failed", idx))
                 /\ UNCHANGED constraints
    /\ hi' = hi + 1
    /\ pc' = IF hi = Len(block_constraints) THEN "commit" ELSE "hide"
    /\ UNCHANGED <<selection, doc, objects, txn, snapshot, geometry, edges, placement,
                   temp_sketch, final_sketch, target_body, sketch_created, item, ok, i,
                   block_constraints, vertex_map, coincident_added, ci, issued, muts,
                   raised, removals>>

\* Lines 268-269: sketch_created = True, then commitTransaction.
Commit ==
    /\ pc = "commit"
    /\ UNCHANGED <<chooser, estimator>>
    /\ sketch_created' = TRUE
    /\ \/ txn' = "committed" /\ pc' = "finally" /\ UNCHANGED raised
       \/ Raise("commitTransaction") /\ UNCHANGED txn
    /\ UNCHANGED <<selection, doc, objects, snapshot, geometry, constraints, edges,
                   placement, temp_sketch, final_sketch, target_body, item, ok, i,
                   block_constraints, vertex_map, coincident_added, ci, hi, out,
                   issued, hideReq, muts, faults, removals>>

\* Lines 271-273: the except block without the abortTransaction of line 274.
ExceptNoAbort ==
    /\ pc = "except"
    /\ UNCHANGED <<chooser, estimator>>
    /\ info_display' = Append(info_display, Msg("Error", "Sketch creation failed", -1))
    /\ console' = Append(console, Msg("Error", "Macro exception", -1))
    /\ pc' = "finally"
    /\ UNCHANGED <<selection, doc, txn, objects, geometry, constraints, snapshot,
                   locals, hist>>

\* Lines 271-274: the except block reports and aborts the transaction; the
\* rollback takes the destination sketch with everything added to it.
Except ==
    /\ pc = "except"
    /\ UNCHANGED <<chooser, estimator>>
    /\ info_display' = Append(info_display, Msg("Error", "Sketch creation failed", -1))
    /\ console' = Append(console, Msg("Error", "Macro exception", -1))
    /\ txn' = "aborted"
    /\ objects' = AbortTransaction(objects, snapshot)
    /\ geometry' = IF "Sketch" \in objects' THEN geometry ELSE <<>>
    /\ constraints' = IF "Sketch" \in objects' THEN constraints ELSE <<>>
    /\ pc' = "finally"
    /\ UNCHANGED <<selection, doc, snapshot, locals, hist>>

\* Lines 276-294: the finally block removes the temporary sketch (a failure
\* to remove it is a warning) and reports the outcome.  temp_sketch and
\* final_sketch may refer to objects the document no longer holds (removed
\* at line 200, or rolled back by abortTransaction); what the host does
\* with such a reference is its choice: it hands out the old name and
\* refuses the call (removeObject raises and is caught; addSelection takes
\* it), or it raises at the first use of the reference (hasattr at line
\* 277, addSelection at line 286) and the exception leaves the operation,
\* which the console shows.
Finally ==
    /\ pc = "finally"
    /\ UNCHANGED <<chooser, estimator>>
    /\ LET remove == temp_sketch # "None"
           present == temp_sketch \in objects
           report == sketch_created /\ final_sketch # "None"
           removed == IF remove
                      THEN Append(removals, [present |-> present, txn |-> txn])
                      ELSE removals
           objs == IF remove /\ present THEN RemoveObject(objects, temp_sketch) ELSE objects
           done == IF remove /\ present THEN muts \cup Mut("removeObject", txn) ELSE muts
           warned == IF remove /\ ~present
                     THEN Append(console, Msg("Warning", "Could not remove temporary sketch", -1))
                     ELSE console
       IN  \/ /\ removals' = removed
              /\ objects' = objs
              /\ muts' = done
              /\ console' = warned
              /\ IF report
                 THEN /\ selection' = <<[kind |-> "Object", name |-> final_sketch]>>
                      /\ info_display' = info_display \o
                            <<Msg("Success", "Sketch created with transformed geometry.", -1),
                              Msg("Info", "Added coincident constraints.", coincident_added)>>
                 ELSE /\ info_display' = Append(info_display,
                            Msg("Error", "Sketch creation incomplete or cancelled.", -1))
                      /\ UNCHANGED selection
           \/ /\ remove /\ ~present
              /\ console' = Append(console, Msg("Error", "Unhandled exception", -1))
              /\ UNCHANGED <<removals, objects, muts, selection, info_display>>
           \/ /\ report /\ final_sketch \notin objs
              /\ removals' = removed
              /\ objects' = objs
              /\ muts' = done
              /\ console' = Append(warned, Msg("Error", "Unhandled exception", -1))
              /\ selection' = <<>>
              /\ UNCHANGED info_display
    /\ pc' = "done"
    /\ UNCHANGED <<doc, txn, snapshot, geometry, constraints, locals, issued, hideReq,
                   raised, faults>>

Next ==
    \/ Entry
    \/ Collect
    \/ Probe
    \/ Prompt
    \/ Target
    \/ Emit
    \/ CoincidentStep
    \/ Hide
    \/ Commit
    \/ Except
    \/ Finally

Spec == Init /\ [][Next]_vars

\* The selections of four edges, degenerate ones among them in any place.
EdgePool == {o \in SubObjectPool : o.kind = "Edge"}

FourEdges == [1..4 -> EdgePool]

InitFourEdges == Start(FourEdges)

SpecFourEdges == InitFourEdges /\ [][Next]_vars

\* Selections of chained edges.  The unit square (1 is 20000 units), whole
\* and cut open; a triangle whose second edge starts 5 units from the end of
\* the first and whose third edge is drawn against the direction of travel;
\* a chevron whose tip Q1 and notch Q3 are 10 units apart; a polyline whose
\* free end comes back to 10 units from its second corner.
S1 == Vec(0, 0, 0)
S2 == Vec(20000, 0, 0)
S3 == Vec(20000, 20000, 0)
S4 == Vec(0, 20000, 0)

T1 == Vec(0, 0, 0)
T2 == Vec(100, 0, 0)
T2b == Vec(100, 5, 0)
T3 == Vec(0, 100, 0)

Q1 == Vec(0, 0, 0)
Q2 == Vec(100, 100, 0)
Q3 == Vec(10, 0, 0)
Q4 == Vec(100, -100, 0)

UnitSquare == <<Edge(S1, S2), Edge(S2, S3), Edge(S3, S4), Edge(S4, S1)>>

Triangle == <<Edge(T1, T2), Edge(T2b, T3), Edge(T1, T3)>>

Chevron == <<Edge(Q1, Q2), Edge(Q2, Q3), Edge(Q3, Q4), Edge(Q4, Q1)>>

Hook == <<Edge(Q4, Q1), Edge(Q1, Q2), Edge(Q2, Q3)>>

Chains ==
    {SubSeq(UnitSquare, 1, n) : n \in 1..4}
        \cup {SubSeq(Triangle, 1, n) : n \in 2..3}
        \cup {Chevron, Hook}

InitChains == Start(Chains)

SpecChains == InitChains /\ [][Next]_vars

\* ------------------------------------------------- select_coplanar_edges
\* In select_coplanar_edges the coordinates of a point are whole multiples
\* of 0.01, kept as integers (200 of the units above); plane_normal is kept
\* in units of 1e-4, the unit of a cross product of two differences of such
\* points, and (pt - plane_point).dot(plane_normal) in units of 1e-6.

\* A point of select_coplanar_edges in the units of is_close.
Fine(p) == VScale(200, p)

\* 0.001 (line 103) in units of 1e-6.
PlaneTol == 1000

\* The length of face.Surface.Axis, a unit vector, in units of 1e-4.
UnitLength == 10000

O0 == Vec(0, 0, 0)
X1 == Vec(1, 0, 0)
X2 == Vec(2, 0, 0)
Y1 == Vec(0, 1, 0)
Z1 == Vec(0, 0, 1)
Z5 == Vec(0, 0, 5)
X40 == Vec(40, 0, 0)
Y40 == Vec(0, 40, 0)

\* obj.Shape.Edges, each edge the points of its two vertexes.
ShapeEdges ==
    << <<O0, X1>>, <<X1, Y1>>, <<X1, X2>>, <<O0, Z5>>, <<O0, X40>>, <<Y40, O0>>,
       <<Z1, Z5>> >>

\* obj.Shape.Faces: the plane z = 0 and the plane x = 0.
ShapeFaces ==
    << [Axis |-> Vec(0, 0, UnitLength), CenterOfMass |-> Vec(20, 20, 0)],
       [Axis |-> Vec(UnitLength, 0, 0), CenterOfMass |-> Vec(0, 1, 2)] >>

Reverse(q) == [k \in 1..Len(q) |-> q[Len(q) + 1 - k]]

\* The shapes looked at: the same edges in two orders, and a shape of faces
\* without an edge.
Shapes ==
    {[Edges |-> ShapeEdges, Faces |-> ShapeFaces],
     [Edges |-> Reverse(ShapeEdges), Faces |-> ShapeFaces],
     [Edges |-> <<>>, Faces |-> ShapeFaces]}

\* SubElementNames of a shape: "Edge<n>", "Face<n>", or another name
\* ("Vertex1").
SubElementNames(sh) ==
    [kind : {"Edge"}, n : 1..Len(sh.Edges)]
        \cup [kind : {"Face"}, n : 1..Len(sh.Faces)]
        \cup [kind : {"Vertex"}, n : {1}]

NameSelections(sh) == UNION {[1..n -> SubElementNames(sh)] : n \in 0..MaxSel}

\* obj.Shape.Edges[k - 1] as an object of the host: the edge at place k of
\* the shape of one object.
EdgeOf(sh, k) == [shape |-> sh, k |-> k]

\* e.isSame(edge) (line 109): the same edge of the same object's shape; an
\* edge of another object is not the same, wherever it lies.
isSame(e, edge) == e = edge

\* self.collected_edges after collect_data on the object (line 57).
Collected(sh) ==
    [k \in 1..Len(sh.Edges) |-> [edge |-> EdgeOf(sh, k), name |-> [kind |-> "Edge", n |-> k]]]

IsEdgeName(nm) == nm.kind = "Edge"

IsFaceName(nm) == nm.kind = "Face"

\* The candidates in the order the second edge lists its vertexes, last first.
V3CandidatesReversed(second, v1, v2) ==
    Reverse(SelectSeq(second,
                      LAMBDA pt : ~is_close(Fine(pt), Fine(v1), TolPoint)
                                  /\ ~is_close(Fine(pt), Fine(v2), TolPoint)))

\* v3_candidates (line 87): the points of the second edge not is_close to
\* v1 nor to v2, in the order of its vertexes.
v3_candidates(second, v1, v2) ==
    SelectSeq(second,
              LAMBDA pt : ~is_close(Fine(pt), Fine(v1), TolPoint)
                          /\ ~is_close(Fine(pt), Fine(v2), TolPoint))

\* plane_normal.Length < 1e-6 (line 93): the length is a whole multiple of
\* 1e-4 or the root of a whole number of these squared, so it is below
\* 0.01 of the unit exactly when its square is below 1.
IsColinear(nrm) == Len2(nrm) < 1

\* Lines 78-99: the plane of the selection, or the error reported.
PlaneOfSelection(sh, sel) ==
    LET edge_names == SelectSeq(sel, IsEdgeName)
        face_names == SelectSeq(sel, IsFaceName)
    IN  IF face_names # <<>>
        THEN LET face == sh.Faces[face_names[1].n]
             IN  [error |-> "", normal |-> face.Axis, point |-> face.CenterOfMass]
        ELSE IF Len(edge_names) >= 2
        THEN LET selected_edges == [k \in 1..Len(edge_names) |-> sh.Edges[edge_names[k].n]]
                 v1 == selected_edges[1][1]
                 v2 == selected_edges[1][2]
                 cand == v3_candidates(selected_edges[2], v1, v2)
             IN  IF cand = <<>>
                 THEN [error |-> "Could not define a valid plane from selected edges.",
                       normal |-> None, point |-> None]
                 ELSE LET v3 == cand[1]
                          nrm == Cross(VSub(v2, v1), VSub(v3, v1))
                      IN  IF IsColinear(nrm)
                          THEN [error |-> "Edges are colinear; cannot define plane.",
                                normal |-> None, point |-> None]
                          ELSE [error |-> "", normal |-> nrm, point |-> v1]
        ELSE [error |-> "Select either a face or two edges.",
              normal |-> None, point |-> None]

\* A test that one endpoint on the plane satisfies.
IsCoplanarAny(edge, pp, pn) ==
    \E k \in 1..2 : Abs(Dot(VSub(edge[k], pp), pn)) < PlaneTol

\* is_coplanar(edge) (lines 101-103) for plane_point pp and plane_normal pn.
is_coplanar(edge, pp, pn) ==
    \A k \in 1..2 : Abs(Dot(VSub(edge[k], pp), pn)) < PlaneTol

\* [edge for edge in obj.Shape.Edges if is_coplanar(edge)] (line 105), each
\* edge by its place in obj.Shape.Edges; k is the next place looked at.
RECURSIVE CoplanarFrom(_, _, _, _)
CoplanarFrom(es, k, pp, pn) ==
    IF k > Len(es) THEN <<>>
    ELSE (IF is_coplanar(es[k], pp, pn) THEN <<k>> ELSE <<>>)
             \o CoplanarFrom(es, k + 1, pp, pn)

\* Lines 108-111: the names added to the selection, one for each coplanar
\* edge that self.collected_edges holds (isSame), the first name found;
\* ce holds the places of the coplanar edges in the shape sh.
RECURSIVE AddedNames(_, _, _)
AddedNames(sh, ce, coll) ==
    IF ce = <<>> THEN <<>>
    ELSE LET name == SelectSeq(coll, LAMBDA c : isSame(c.edge, EdgeOf(sh, Head(ce))))
         IN  (IF name # <<>> THEN <<name[1].name>> ELSE <<>>)
                 \o AddedNames(sh, Tail(ce), coll)

\* create_sketch_from_selection is not running.
SketchIdle ==
    /\ doc = TRUE
    /\ objects = {"Body"}
    /\ txn = "none"
    /\ snapshot = {}
    /\ geometry = <<>>
    /\ constraints = <<>>
    /\ edges = <<>>
    /\ placement = NoPlacement
    /\ temp_sketch = "None"
    /\ final_sketch = "None"
    /\ target_body = "None"
    /\ sketch_created = FALSE
    /\ item = ""
    /\ ok = "None"
    /\ i = 1
    /\ block_constraints = <<>>
    /\ vertex_map = <<>>
    /\ coincident_added = 0
    /\ ci = 1
    /\ hi = 1
    /\ console = <<>>
    /\ issued = <<>>
    /\ hideReq = <<>>
    /\ muts = {}
    /\ raised = "none"
    /\ faults = 0
    /\ removals = <<>>

sketch == <<host, locals, console, hist>>

\* The state when the user presses "Select Coplanar Edges", or "Collect
\* Edge Data" and then "Select Coplanar Edges": an object's shape, a
\* selection of its sub-elements (none, or at most MaxSel), and
\* self.collected_edges as __init__ left it or as an earlier collect_data
\* left it, run on this object or on another one.
InitSelect ==
    /\ pc \in {"collect_data", "select"}
    /\ shape \in Shapes
    /\ selection \in NameSelections(shape)
    /\ collected_edges \in {<<>>} \cup {Collected(sh) : sh \in Shapes}
    /\ plane_normal = None
    /\ plane_point = None
    /\ coplanar_edges = <<>>
    /\ info_display = <<>>
    /\ SketchIdle
    /\ EstimatorIdle

\* Lines 46-65, "Collect Edge Data": the display is cleared; without a
\* selection the error; else self.collected_edges is every edge of the
\* selected object's shape with its name.  (The mass center of line 61 is
\* read by the plane functions only, which take any.)
collect_data ==
    /\ pc = "collect_data"
    /\ pc' = "select"
    /\ IF selection = <<>>
       THEN /\ info_display' = <<Msg("Error", "No selection made.", -1)>>
            /\ UNCHANGED collected_edges
       ELSE /\ collected_edges' = Collected(shape)
            /\ info_display' = <<Msg("Info", "Collected edges.", Len(shape.Edges))>>
    /\ UNCHANGED <<selection, shape, plane_normal, plane_point, coplanar_edges,
                   sketch, estimator>>

\* Lines 69-99: an empty selection, or the plane, or the error and return.
SelectPlane ==
    /\ pc = "select"
    /\ IF selection = <<>>
       THEN /\ info_display' = Append(info_display,
                                      Msg("Error", "Select a face or two edges first.", -1))
            /\ pc' = "returned"
            /\ UNCHANGED <<plane_normal, plane_point>>
       ELSE LET pl == PlaneOfSelection(shape, selection)
            IN  IF pl.error # ""
                THEN /\ info_display' = Append(info_display, Msg("Error", pl.error, -1))
                     /\ pc' = "returned"
                     /\ UNCHANGED <<plane_normal, plane_point>>
                ELSE /\ plane_normal' = pl.normal
                     /\ plane_point' = pl.point
                     /\ pc' = "classify"
                     /\ UNCHANGED info_display
    /\ UNCHANGED <<selection, shape, collected_edges, coplanar_edges, sketch, estimator>>

\* Lines 101-105: the coplanar edges of the object's shape.
Classify ==
    /\ pc = "classify"
    /\ coplanar_edges' = CoplanarFrom(shape.Edges, 1, plane_point, plane_normal)
    /\ pc' = "reselect"
    /\ UNCHANGED <<selection, shape, collected_edges, plane_normal, plane_point,
                   info_display, sketch, estimator>>

\* Lines 107-115: the selection becomes the coplanar edges that have a name.
Reselect ==
    /\ pc = "reselect"
    /\ selection' = AddedNames(shape, coplanar_edges, collected_edges)
    /\ info_display' = Append(info_display,
                              Msg("Step", "Selected coplanar edges.", Len(coplanar_edges)))
    /\ pc' = "returned"
    /\ UNCHANGED <<shape, collected_edges, plane_normal, plane_point, coplanar_edges,
                   sketch, estimator>>

NextSelect ==
    \/ collect_data
    \/ SelectPlane
    \/ Classify
    \/ Reselect

SpecSelect == InitSelect /\ [][NextSelect]_vars

\* ------------------------------------------------ the plane functions
\* calculate_robust_plane_normal_and_placement and create_robust_placement
\* called on their own: any list of vertices (the points are kept as they
\* come, repeated ones too), any self.edge_mass_center, any normal.
PZ == Vec(0, 0, 10)

PointPool == {PA, PB, PC, PD, PZ}

PointLists == UNION {[1..n -> PointPool] : n \in 0..MaxPts}

\* self.edge_mass_center as __init__ or collect_data (line 61) left it.
MassCenters == {Vec(0, 0, 0), Vec(0, 0, 50), Vec(0, 0, -50), Vec(5, 40, 3)}

\* Normals handed to create_robust_placement: of no length, along Z, within
\* the 0.999 of Z but not along it, and away from Z.
NormalPool ==
    {Vec(0, 0, 0), Vec(0, 0, 1), Vec(0, 0, -7), Vec(1, 0, 30), Vec(0, -1, -30),
     Vec(1, 0, 1), Vec(3, 4, 0), Vec(2, 0, -1)}

\* The rotation applied to world Z: Rotation() leaves it, the half turn
\* about X reverses it, Rotation(z_axis, normal) takes it to normal.
RotatedZ(pl) == pl.Rotation.to

InitEstimate ==
    /\ pc = "estimate"
    /\ points \in PointLists
    /\ reference \in MassCenters
    /\ estimate = None
    /\ given = None
    /\ built = None
    /\ rebuilt = None
    /\ selection = <<>>
    /\ info_display = <<>>
    /\ SketchIdle
    /\ ChooserIdle

\* normal, center = self.calculate_robust_plane_normal_and_placement(...)
Estimate ==
    /\ pc = "estimate"
    /\ estimate' = calculate_robust_plane_normal_and_placement(points, reference)
    /\ pc' = "build"
    /\ UNCHANGED <<selection, info_display, points, reference, given, built, rebuilt,
                   sketch, chooser>>

\* self.create_robust_placement(normal, center), of the estimated normal
\* (line 184) or of any other.
Build ==
    /\ pc = "build"
    /\ \E nrm \in NormalPool \cup {estimate.normal} :
          /\ given' = nrm
          /\ built' = create_robust_placement(nrm, estimate.center)
    /\ pc' = "rebuild"
    /\ UNCHANGED <<selection, info_display, points, reference, estimate, rebuilt,
                   sketch, chooser>>

\* create_robust_placement of the normal taken from its own result.
Rebuild ==
    /\ pc = "rebuild"
    /\ rebuilt' = create_robust_placement(RotatedZ(built), built.Base)
    /\ pc' = "returned"
    /\ UNCHANGED <<selection, info_display, points, reference, estimate, given, built,
                   sketch, chooser>>

NextEstimate ==
    \/ Estimate
    \/ Build
    \/ Rebuild

SpecEstimate == InitEstimate /\ [][NextEstimate]_vars

\* ------------------------------------------------------------- claims
Reported(level, text) ==
    \E k \in 1..Len(info_display) :
        info_display[k].level = level /\ info_display[k].text = text

Success == Reported("Success", "Sketch created with transformed geometry.")

\* The host calls between openTransaction and commitTransaction whose
\* exception the except block handles.
FatalSites ==
    {"addObject", "recompute", "dropObject", "addGeometry", "setConstruction",
     "addConstraint"}

\* What one invocation may add to the document.
CreatedNames == {"TempSketch", "Sketch", "NewBody"}

\* C1 (as claimed): when the prompt was answered and no host call raised, the
\* transaction is committed and success is reported exactly when the loop
\* over the edges produced at least one segment; with no segment the
\* transaction is aborted and no success is reported.
C1_CommitIffSegment ==
    (pc = "done" /\ ok = "True" /\ item # "" /\ raised = "none") =>
        /\ (txn = "committed" /\ Success) <=> (Len(geometry) >= 1)
        /\ (Len(geometry) = 0) => (txn = "aborted" /\ ~Success)

\* C2: once a host call between openTransaction and commitTransaction has
\* raised, the transaction is never committed; when the operation returns it
\* is aborted and the document holds exactly the objects it held before, none
\* of TempSketch, Sketch, NewBody.
C2_RaiseAbortsAll ==
    (raised \in FatalSites) =>
        /\ txn # "committed"
        /\ (pc = "done") =>
              /\ txn = "aborted"
              /\ objects = snapshot
              /\ objects \cap CreatedNames = {}

\* C2's case: the Block constraint of a sketch in a new body raised, after
\* the temporary sketch, the body and the sketch were created.
C2_Witness ==
    /\ pc = "done"
    /\ raised = "addConstraint"
    /\ target_body = "NewBody"
    /\ final_sketch = "Sketch"
    /\ temp_sketch = "TempSketch"

C4_MutationsInsideTransaction == \A m \in muts : m[2] = "open"

\* C5: when the user declines the prompt the transaction is aborted, never
\* committed, the document holds the objects it held before, and the
\* cancellation is what is reported (no success).
C5_DeclineIsCleanAbort ==
    (ok = "False") =>
        /\ txn = "aborted"
        /\ objects = snapshot
        /\ objects \cap CreatedNames = {}
        /\ Reported("Info", "Sketch creation cancelled by user.")
        /\ ~Success
        /\ final_sketch = "None"

\* C5's case: the prompt was declined (the dialog still hands back an item)
\* and the operation has returned.
C5_Witness ==
    /\ pc = "done"
    /\ ok = "False"
    /\ item = Standalone
    /\ temp_sketch = "TempSketch"

\* The two endpoints of an edge are at least `tolerance` apart.
FarApart(e) == Len2(VSub(e[1], e[2])) >= tolerance * tolerance

\* The selected edges that are not degenerate, in the order of the selection.
Valid == SelectSeq(edges, FarApart)

\* The loop over the edges has ended and the sketch is still in the document.
EmissionDone ==
    \/ pc \in {"coincident", "hide", "commit"}
    \/ pc \in {"finally", "done"} /\ txn = "committed"

BlockCount == Cardinality({k \in 1..Len(constraints) : constraints[k].type = "Block"})

CoincidentCount ==
    Cardinality({k \in 1..Len(constraints) : constraints[k].type = "Coincident"})

\* C6: after the loop over the edges, the k-th non-degenerate edge has given
\* the k-th segment (its two endpoints in the sketch's frame, flagged
\* construction) and the k-th Block constraint, which references that
\* segment; segments, Block constraints and non-degenerate edges are equal in
\* number.
C6_OneSegmentOneBlockPerEdge ==
    EmissionDone =>
        LET valid == Valid
        IN  /\ Len(geometry) = Len(valid)
            /\ Len(block_constraints) = Len(valid)
            /\ BlockCount = Len(valid)
            /\ \A k \in 1..Len(valid) :
              /\ k <= Len(geometry)
              /\ geometry[k].construction
              /\ geometry[k].start = multVecInverse(getGlobalPlacement, valid[k][1])
              /\ geometry[k].end = multVecInverse(getGlobalPlacement, valid[k][2])
              /\ k <= Len(block_constraints)
              /\ block_constraints[k] + 1 \in 1..Len(constraints)
              /\ constraints[block_constraints[k] + 1].type = "Block"
              /\ constraints[block_constraints[k] + 1].refs = <<k - 1>>

\* C6's case: three edges selected, the second degenerate, two segments.
C6_Witness ==
    /\ pc = "hide"
    /\ Len(edges) = 3
    /\ ~FarApart(edges[2])
    /\ Len(geometry) = 2
    /\ Len(block_constraints) = 2

\* The warnings of line 230 printed so far, as the positions of their edges.
SkippedAt(k) ==
    {j \in 1..Len(console) :
        console[j] = Msg("Warning", "Skipped degenerate edge", k)}

SkippedDegenerate ==
    Cardinality({j \in 1..Len(console) : console[j].text = "Skipped degenerate edge"})

RECURSIVE RefCount(_)
RefCount(vm) == IF vm = <<>> THEN 0 ELSE Len(Head(vm).refs) + RefCount(Tail(vm))

\* C7: after the loop over the edges, every edge whose endpoints are closer
\* than the tolerance has been reported skipped exactly once and nothing
\* else has; the skipped edges gave no segment, no Block constraint and no
\* reference in the vertex map; all edges were processed; and when no host
\* call raises and the prompt is answered, the transaction commits with one
\* segment per other edge (one degenerate edge among three valid ones: one
\* skipped, three segments, committed).
C7_DegenerateEdgeSkipped ==
    /\ EmissionDone =>
          LET skippedDegenerate == SkippedDegenerate
          IN  /\ i = Len(edges) + 1
              /\ \A k \in 1..Len(edges) :
                    Cardinality(SkippedAt(k)) = (IF FarApart(edges[k]) THEN 0 ELSE 1)
              /\ skippedDegenerate = Len(edges) - Len(Valid)
              /\ Len(geometry) = Len(edges) - skippedDegenerate
              /\ BlockCount = Len(edges) - skippedDegenerate
              /\ RefCount(vertex_map) = 2 * (Len(edges) - skippedDegenerate)
    /\ (pc = "done" /\ raised = "none" /\ ok = "True" /\ item # "") =>
          /\ txn = "committed"
          /\ Len(geometry) = Len(Valid)

\* C7's case: one degenerate edge among three valid ones, committed.
C7_Witness ==
    /\ pc = "done"
    /\ txn = "committed"
    /\ Len(edges) = 4
    /\ Len(Valid) = 3
    /\ SkippedDegenerate = 1
    /\ Len(geometry) = 3

\* The references of the vertex map as (group, place in the group).
RefPlaces ==
    UNION {{<<g, k>> : k \in 1..Len(vertex_map[g].refs)} : g \in 1..Len(vertex_map)}

\* The global endpoint a reference (geo_index, vertex_id) stands for: an
\* endpoint of the edge that gave the segment geo_index.
RefPoint(x) ==
    LET ref == vertex_map[x[1]].refs[x[2]]
    IN  Valid[ref[1] + 1][ref[2]]

\* The endpoints of all references, by place.
RefPoints ==
    LET valid == Valid
    IN  [x \in RefPlaces |->
            LET ref == vertex_map[x[1]].refs[x[2]] IN valid[ref[1] + 1][ref[2]]]

\* C8 (as claimed): any two registered endpoints closer than the tolerance
\* are in the same group.
C8_MergeByProximity ==
    EmissionDone =>
        LET pt == RefPoints
        IN  \A x, y \in RefPlaces :
                is_close(pt[x], pt[y], tolerance) => x[1] = y[1]

\* C8 (amended): a group's key is the endpoint of its first reference, and a
\* registered endpoint is in the group of the first-created key that it is
\* closer to than the tolerance.
C8_MergeWithFirstCloseKey ==
    EmissionDone =>
        LET pt == RefPoints
        IN  /\ \A g \in 1..Len(vertex_map) :
                  /\ Len(vertex_map[g].refs) >= 1
                  /\ vertex_map[g].key = pt[<<g, 1>>]
            /\ \A x \in RefPlaces :
                  \A g \in 1..Len(vertex_map) :
                      (/\ is_close(pt[x], vertex_map[g].key, tolerance)
                       /\ \A h \in 1..(g - 1) :
                              ~is_close(pt[x], vertex_map[h].key, tolerance))
                      => x[1] = g

\* C8's case: an endpoint that differs from two keys and is closer than the
\* tolerance to both is in the group created first.
C8_Witness ==
    /\ EmissionDone
    /\ \E x \in RefPlaces :
          \E h \in 1..Len(vertex_map) :
              /\ x[1] < h
              /\ RefPoint(x) # vertex_map[x[1]].key
              /\ is_close(RefPoint(x), vertex_map[x[1]].key, tolerance)
              /\ is_close(RefPoint(x), vertex_map[h].key, tolerance)

\* The Coincident loop has ended and the sketch is still in the document.
CoincidenceDone ==
    \/ pc \in {"hide", "commit"}
    \/ pc \in {"finally", "done"} /\ txn = "committed"

\* The Coincident requests of the groups before group g: each size - 1.
RECURSIVE RequestsBefore(_)
RequestsBefore(g) ==
    IF g <= 1 THEN 0
    ELSE RequestsBefore(g - 1) + (Len(vertex_map[g - 1].refs) - 1)

\* C9: after the Coincident loop, the requests made are, group by group in
\* the order of the vertex map, the group's first reference with each later
\* reference in list order: size - 1 requests for a group, none for a group
\* of one, the sum of (size - 1) in all.
C9_CoincidenceIsStar ==
    CoincidenceDone =>
        /\ Len(issued) = RequestsBefore(Len(vertex_map) + 1)
        /\ \A g \in 1..Len(vertex_map) :
              \A k \in 1..(Len(vertex_map[g].refs) - 1) :
                  /\ RequestsBefore(g) + k <= Len(issued)
                  /\ issued[RequestsBefore(g) + k].a = vertex_map[g].refs[1]
                  /\ issued[RequestsBefore(g) + k].b = vertex_map[g].refs[k + 1]

\* C9's case: a group of three references, where a star and a chain differ.
C9_Witness ==
    /\ CoincidenceDone
    /\ \E g \in 1..Len(vertex_map) : Len(vertex_map[g].refs) >= 3
    /\ \E g \in 1..Len(vertex_map) : Len(vertex_map[g].refs) = 1

Rejected == \E k \in 1..Len(issued) : ~issued[k].ok

AcceptedCount == Cardinality({k \in 1..Len(issued) : issued[k].ok})

\* C10: a rejected Coincident request does not reach the except block (after
\* it only commitTransaction can); when nothing else raises, the operation
\* has made every Coincident request, asked to hide every Block constraint,
\* committed, and reports as added the number of requests the host accepted,
\* which is the number of Coincident constraints in the sketch.
C10_RejectionIsLocal ==
    Rejected =>
        /\ raised \in {"none", "commitTransaction"}
        /\ (pc = "done" /\ raised = "none") =>
              /\ txn = "committed"
              /\ Len(issued) = RequestsBefore(Len(vertex_map) + 1)
              /\ hideReq = block_constraints
              /\ AcceptedCount = CoincidentCount
              /\ coincident_added = AcceptedCount
              /\ Success
              /\ \E k \in 1..Len(info_display) :
                    info_display[k] =
                        Msg("Info", "Added coincident constraints.", AcceptedCount)

\* C10's case: the first of two requests was rejected, the second accepted,
\* and the operation has returned.
C10_Witness ==
    /\ pc = "done"
    /\ Len(issued) = 2
    /\ ~issued[1].ok
    /\ issued[2].ok
    /\ txn = "committed"

\* The endpoint of edge e where the travel along a chain enters it (slot 1)
\* or leaves it (slot 2), when the edge is drawn against the travel or not.
Entering(e, against) == IF against THEN e[2] ELSE e[1]

Leaving(e, against) == IF against THEN e[1] ELSE e[2]

Directions(n) == [1..n -> BOOLEAN]

\* Each edge leaves where the next one enters, within the tolerance.
IsChain(es, f) ==
    \A k \in 1..(Len(es) - 1) :
        is_close(Leaving(es[k], f[k]), Entering(es[k + 1], f[k + 1]), tolerance)

\* A closed polygon: a chain of two or more edges whose last edge leaves
\* where the first enters.
IsClosed(es, f) ==
    /\ Len(es) >= 2
    /\ IsChain(es, f)
    /\ is_close(Leaving(es[Len(es)], f[Len(es)]), Entering(es[1], f[1]), tolerance)

ClosedPolygon(es) ==
    /\ \A k \in 1..Len(es) : FarApart(es[k])
    /\ \E f \in Directions(Len(es)) : IsClosed(es, f)

OpenChain(es) ==
    /\ Len(es) >= 1
    /\ \A k \in 1..Len(es) : FarApart(es[k])
    /\ \E f \in Directions(Len(es)) : IsChain(es, f)
    /\ ~ClosedPolygon(es)

\* The corner of a chain an endpoint is at: edge k enters at corner k and
\* leaves at corner k + 1, which in a closed polygon of n edges is corner 1
\* for edge n.
Corner(n, closed, f, k, slot) ==
    LET entering == (slot = 1) = ~f[k]
    IN  IF entering THEN k
        ELSE IF closed /\ k = n THEN 1 ELSE k + 1

\* Two endpoints are closer than the tolerance exactly when they are at the
\* same corner: the corners are apart and each is shared as the chain says.
CornersApart(es, closed, f) ==
    \A k, l \in 1..Len(es) : \A s, t \in 1..2 :
        is_close(es[k][s], es[l][t], tolerance)
            <=> (Corner(Len(es), closed, f, k, s) = Corner(Len(es), closed, f, l, t))

\* C11 (as claimed): after the Coincident loop, with no request rejected, a
\* closed polygon of N non-degenerate edges has given N groups and N
\* Coincident constraints, an open chain of N edges N - 1 constraints.
C11_PolygonCounts ==
    (CoincidenceDone /\ ~Rejected) =>
        /\ ClosedPolygon(edges) =>
              (Len(vertex_map) = Len(edges) /\ CoincidentCount = Len(edges))
        /\ OpenChain(edges) => (CoincidentCount = Len(edges) - 1)

\* C11 (amended): the same counts for the chains whose corners are apart by
\* the tolerance or more (two endpoints are closer than the tolerance only
\* at a shared corner): N groups and N requests when closed, N + 1 groups
\* and N - 1 requests when open, each request a constraint when the host
\* rejects none; the unit square gives 4 segments, 4 Block constraints,
\* 4 Coincident constraints and no skipped edge.
C11_SeparatedPolygonCounts ==
    CoincidenceDone =>
        /\ \A f \in Directions(Len(edges)) :
              /\ (Len(edges) >= 2 /\ CornersApart(edges, TRUE, f)) =>
                    /\ Len(vertex_map) = Len(edges)
                    /\ Len(issued) = Len(edges)
                    /\ ~Rejected => CoincidentCount = Len(edges)
              /\ (Len(edges) >= 1 /\ CornersApart(edges, FALSE, f)) =>
                    /\ Len(vertex_map) = Len(edges) + 1
                    /\ Len(issued) = Len(edges) - 1
                    /\ ~Rejected => CoincidentCount = Len(edges) - 1
        /\ (edges = EdgesOf(UnitSquare) /\ ~Rejected) =>
              /\ Len(geometry) = 4
              /\ BlockCount = 4
              /\ CoincidentCount = 4
              /\ SkippedDegenerate = 0

\* C11's case: the unit square, committed with its four constraints of each
\* kind.
C11_Witness ==
    /\ pc = "done"
    /\ txn = "committed"
    /\ edges = EdgesOf(UnitSquare)
    /\ ClosedPolygon(edges)
    /\ CornersApart(edges, TRUE, [k \in 1..4 |-> FALSE])
    /\ CoincidentCount = 4
    /\ BlockCount = 4

\* select_coplanar_edges has classified the edges of the shape.
Classified == pc = "reselect" \/ (pc = "returned" /\ plane_normal # None)

\* The point is within 0.001 of the plane by the test of line 103.
OnPlane(pt) == Abs(Dot(VSub(pt, plane_point), plane_normal)) < PlaneTol

InCoplanar(k) == \E j \in 1..Len(coplanar_edges) : coplanar_edges[j] = k

\* C12: the coplanar edges are, in the order of obj.Shape.Edges and each
\* once, exactly the edges with both endpoints passing the plane test; an
\* edge with one such endpoint is not among them; the verdict for an edge is
\* the verdict it gets alone; a shape without edges gives none.
C12_BothEndpointsOnPlane ==
    Classified =>
        /\ \A j \in 1..Len(coplanar_edges) : coplanar_edges[j] \in 1..Len(shape.Edges)
        /\ \A j \in 1..(Len(coplanar_edges) - 1) : coplanar_edges[j] < coplanar_edges[j + 1]
        /\ \A k \in 1..Len(shape.Edges) :
              LET a == OnPlane(shape.Edges[k][1])
                  b == OnPlane(shape.Edges[k][2])
              IN  /\ InCoplanar(k) <=> (a /\ b)
                  /\ (a /\ ~b) \/ (b /\ ~a) => ~InCoplanar(k)
                  /\ InCoplanar(k) <=>
                        (CoplanarFrom(<<shape.Edges[k]>>, 1, plane_point, plane_normal) = <<1>>)
        /\ (shape.Edges = <<>>) => (coplanar_edges = <<>>)

\* C12's case: the face z = 0 selected; the edge from the plane to a point
\* off it is left out, edges before and after it are kept.
C12_Witness ==
    /\ pc = "returned"
    /\ plane_normal = Vec(0, 0, UnitLength)
    /\ shape.Edges = ShapeEdges
    /\ coplanar_edges = <<1, 2, 3, 5, 6>>
    /\ OnPlane(shape.Edges[4][1])
    /\ ~OnPlane(shape.Edges[4][2])

\* The plane estimate has returned.
Estimated == estimate # None

\* centroid - referenceCenter, times the number of points of the centroid.
Delta == VSub(estimate.center.sum, VScale(estimate.center.n, reference))

\* C13 (as claimed): for every list of points, of fewer than 3 too, the
\* normal returned does not point against centroid - referenceCenter when
\* that difference is not zero.
C13_NormalAwayFromCenter ==
    (Estimated /\ Delta # Vec(0, 0, 0)) => Dot(estimate.normal, Delta) >= 0

\* C13 (amended): the same for lists of 3 points or more; for fewer the
\* estimate is the normal (0,0,1) and the centroid (0,0,0), whatever the
\* reference center is.
C13_NormalAwayFromCenterOfThree ==
    Estimated =>
        /\ (Len(points) >= 3 /\ Delta # Vec(0, 0, 0)) => Dot(estimate.normal, Delta) >= 0
        /\ (Len(points) < 3) =>
              /\ estimate.normal = Vec(0, 0, 1)
              /\ estimate.center.sum = Vec(0, 0, 0)

\* C13's case: three points in a plane whose first-found normal points
\* against centroid - referenceCenter and is returned reversed.
C13_Witness ==
    /\ Estimated
    /\ points = <<PA, PB, PD>>
    /\ reference = Vec(0, 0, 50)
    /\ EstimateUnsigned(points, reference).normal = Vec(0, 0, 1)
    /\ estimate.normal = Vec(0, 0, -1)
    /\ Dot(estimate.normal, Delta) > 0

\* create_robust_placement has returned, for given and again.
Built == rebuilt # None

\* The cosine of the angle between v and world Z exceeds 0.999 in size:
\* z^2 * 1000^2 > 999^2 * |v|^2.
Within999OfZ(v) == 1000000 * v[3] * v[3] > 998001 * Len2(v)

\* The direction of the normal the placement is asked for; (0,0,1) for a
\* normal of no length.
Asked == IF given = Vec(0, 0, 0) THEN Vec(0, 0, 1) ELSE normalize(given)

\* C14 (as claimed): for every normal, those within 0.999 of Z and the one
\* of no length included, the rotation takes world Z to the normalized
\* normal, and the placement built from that vector takes Z to it again.
C14_RotationReproducesNormal ==
    Built =>
        /\ RotatedZ(built) = Asked
        /\ RotatedZ(rebuilt) = RotatedZ(built)

\* C14 (amended): the rotation takes world Z to the normalized normal when
\* the normal is not within 0.999 of Z; to +Z or -Z, by the sign of the
\* normal's z, when it is; to +Z for a normal of no length; and the
\* placement built from the vector so obtained has the same rotation.
C14_RotationReproducesNormalAwayFromZ ==
    Built =>
        /\ (given # Vec(0, 0, 0) /\ ~Within999OfZ(given)) => RotatedZ(built) = normalize(given)
        /\ (given # Vec(0, 0, 0) /\ Within999OfZ(given)) =>
              RotatedZ(built) = (IF given[3] > 0 THEN Vec(0, 0, 1) ELSE Vec(0, 0, -1))
        /\ (given = Vec(0, 0, 0)) => RotatedZ(built) = Vec(0, 0, 1)
        /\ rebuilt.Rotation = built.Rotation
        /\ rebuilt.Base = built.Base

\* C14's case: a normal within 0.999 of -Z and not along it.
C14_Witness ==
    /\ Built
    /\ given = Vec(0, -1, -30)
    /\ Within999OfZ(given)
    /\ RotatedZ(built) = Vec(0, 0, -1)
    /\ RotatedZ(rebuilt) = Vec(0, 0, -1)

\* The selection names two edges or more and no face.
TwoEdges == Len(SelectSeq(selection, IsFaceName)) = 0 /\ Len(SelectSeq(selection, IsEdgeName)) >= 2

FirstEdge == shape.Edges[SelectSeq(selection, IsEdgeName)[1].n]

SecondEdge == shape.Edges[SelectSeq(selection, IsEdgeName)[2].n]

\* The point is not within the default point tolerance of either vertex of
\* the first selected edge.
ApartFromFirst(pt) ==
    /\ Len2(VSub(Fine(pt), Fine(FirstEdge[1]))) >= TolPoint * TolPoint
    /\ Len2(VSub(Fine(pt), Fine(FirstEdge[2]))) >= TolPoint * TolPoint

\* C15: with two edges and no face selected, select_coplanar_edges takes as
\* v3 the first vertex of the second edge apart from both vertices of the
\* first, and the plane is v1 with cross(v2 - v1, v3 - v1); when there is
\* no such vertex, or the cross product has no length, it reports the error
\* and returns: no plane, no edge classified, the selection as it was.
C15_TwoEdgesPlaneOrError ==
    [][(pc = "select" /\ selection # <<>> /\ TwoEdges) =>
            LET v1 == FirstEdge[1]
                v2 == FirstEdge[2]
                v3 == IF ApartFromFirst(SecondEdge[1]) THEN SecondEdge[1] ELSE SecondEdge[2]
                none == ~ApartFromFirst(SecondEdge[1]) /\ ~ApartFromFirst(SecondEdge[2])
                cross == Cross(VSub(v2, v1), VSub(v3, v1))
            IN  IF none \/ cross = Vec(0, 0, 0)
                THEN /\ pc' = "returned"
                     /\ selection' = selection
                     /\ plane_normal' = None
                     /\ coplanar_edges' = <<>>
                     /\ info_display' = Append(info_display,
                            Msg("Error",
                                IF none THEN "Could not define a valid plane from selected edges."
                                ELSE "Edges are colinear; cannot define plane.", -1))
                ELSE /\ pc' = "classify"
                     /\ plane_normal' = cross
                     /\ plane_point' = v1
                     /\ info_display' = info_display]_vars

\* C15's case: the second edge starts at a vertex of the first and ends on
\* its line; the colinear error is reported and nothing else has happened.
C15_Witness ==
    /\ pc = "returned"
    /\ shape.Edges = ShapeEdges
    /\ selection = <<[kind |-> "Edge", n |-> 1], [kind |-> "Edge", n |-> 3]>>
    /\ ~ApartFromFirst(SecondEdge[1])
    /\ ApartFromFirst(SecondEdge[2])
    /\ info_display = <<Msg("Error", "Edges are colinear; cannot define plane.", -1)>>
    /\ coplanar_edges = <<>>
    /\ plane_normal = None

\* The plane has been handed to the coplanarity test.
PlaneSet == plane_normal # None

\* The perpendicular distance of the point to the plane is below 0.001:
\* |dot| / |plane_normal| in units of 0.01, so 10 * |dot| < |plane_normal|
\* (squares of the two sides; the left side is beyond every |plane_normal|
\* here once it is 46341).
DistanceBelowTol(pt) ==
    LET a == 10 * Abs(Dot(VSub(pt, plane_point), plane_normal))
    IN  a < 46341 /\ a * a < Len2(plane_normal)

\* C16 (as claimed): the plane handed to the coplanarity test has a normal
\* of unit length, from a face and from two edges alike, and an endpoint
\* passes the test exactly when its distance to the plane is below 0.001.
C16_UnitNormalMembership ==
    PlaneSet =>
        /\ Len2(plane_normal) = UnitLength * UnitLength
        /\ \A k \in 1..Len(shape.Edges) : \A e \in 1..2 :
              OnPlane(shape.Edges[k][e]) <=> DistanceBelowTol(shape.Edges[k][e])

\* The selection holds no edge: nothing, or faces only.  The operation
\* replaces the selection only after it set sketch_created (lines 284-286);
\* until then the selection is the one it was started with.
NoEdgeSelected ==
    /\ ~sketch_created
    /\ \A k \in 1..Len(selection) : selection[k].kind = "Face"

\* C17: with a document and a selection without an edge, the operation
\* goes from the edge collection straight to its end: "No edges selected."
\* is reported, the transaction it opened is aborted, no object was created
\* (no temporary sketch, no sketch, no body: no mutation of the document at
\* all), the user was not prompted, and the document holds what it held.
C17_NoEdgeAbortsUntouched ==
    (doc /\ NoEdgeSelected /\ pc \notin {"entry", "collect"}) =>
        /\ pc \in {"finally", "done"}
        /\ edges = <<>>
        /\ Reported("Error", "No edges selected.")
        /\ ~Success
        /\ txn = "aborted"
        /\ raised = "none"
        /\ muts = {}
        /\ temp_sketch = "None"
        /\ final_sketch = "None"
        /\ target_body = "None"
        /\ ok = "None"
        /\ item = ""
        /\ objects = snapshot
        /\ objects \cap CreatedNames = {}

\* C17's case: only a face is selected; the operation has returned.
C17_Witness ==
    /\ pc = "done"
    /\ doc
    /\ selection = <<Face>>
    /\ txn = "aborted"
    /\ Reported("Error", "No edges selected.")
    /\ objects = {"Body"}

\* Exactly three points, on one line: the cross product of the only triple
\* has no length.
ThreeCollinear ==
    /\ Len(points) = 3
    /\ Cross(VSub(points[2], points[1]), VSub(points[3], points[1])) = Vec(0, 0, 0)

WithinMerge(p1, p2) == Len2(VSub(p1, p2)) < tolerance * tolerance

\* C19: at every moment of the registrations, each group was created by the
\* endpoint of its first reference (its representative), every reference of
\* a group belongs to an endpoint within the merge tolerance of that
\* representative, and to no representative of a group created earlier: an
\* endpoint within tolerance of several representatives is in the group
\* created first.
C19_GroupWithinToleranceFirstSeen ==
    LET pt == RefPoints
    IN  \A x \in RefPlaces :
            /\ vertex_map[x[1]].key = pt[<<x[1], 1>>]
            /\ WithinMerge(pt[x], vertex_map[x[1]].key)
            /\ \A h \in 1..(x[1] - 1) : ~WithinMerge(pt[x], vertex_map[h].key)

\* C19's case: the registrations of three edges are over; an endpoint that
\* is not a representative is within tolerance of the representatives of
\* two groups and sits in the earlier one, the later one keeping its own.
C19_Witness ==
    /\ pc = "coincident"
    /\ ci = 1
    /\ Len(vertex_map) = 3
    /\ \E x \in RefPlaces :
          /\ x[1] = 1
          /\ x[2] > 1
          /\ WithinMerge(RefPoint(x), vertex_map[1].key)
          /\ WithinMerge(RefPoint(x), vertex_map[3].key)
          /\ ~WithinMerge(vertex_map[1].key, vertex_map[3].key)

\* The host has declined a setVirtualSpace request: a rejection that was not
\* one of a Coincident request.
HideRejected == faults > Len(issued) - AcceptedCount

\* C20: setVirtualSpace is asked for the Block constraints in the order
\* they were created, each a Block constraint of the sketch, and only after
\* every Coincident request was made; by the commit it was asked for every
\* one of them.  A declined request does not reach the except block (after
\* it only commitTransaction can): the warning is reported, and when
\* nothing else raises every Block constraint was asked for and the
\* transaction is committed.
C20_HideIsBestEffort ==
    /\ \A k \in 1..Len(hideReq) :
          k <= Len(block_constraints) /\ hideReq[k] = block_constraints[k]
    /\ (hideReq # <<>>) => (Len(issued) = RequestsBefore(Len(vertex_map) + 1))
    /\ (pc \in {"hide", "commit"}) =>
          \A k \in 1..Len(block_constraints) :
              /\ block_constraints[k] + 1 \in 1..Len(constraints)
              /\ constraints[block_constraints[k] + 1].type = "Block"
    /\ (pc = "commit" \/ sketch_created) => (hideReq = block_constraints)
    /\ HideRejected =>
          /\ raised \in {"none", "commitTransaction"}
          /\ Reported("Warning", "Constraint index visibility could not be set")
          /\ (pc = "done" /\ raised = "none") =>
                /\ txn = "committed"
                /\ hideReq = block_constraints
                /\ Success

\* C20's case: the request for the first of two Block constraints was
\* declined, the second is hidden, and the transaction is committed.
C20_Witness ==
    /\ pc = "done"
    /\ txn = "committed"
    /\ HideRejected
    /\ Len(block_constraints) = 2
    /\ hideReq = block_constraints
    /\ ~constraints[block_constraints[1] + 1].hidden
    /\ constraints[block_constraints[2] + 1].hidden

\* The operation has told the user of a failure or a cancellation.
FailureReported ==
    \E k \in 1..Len(info_display) : info_display[k].level \in {"Error", "Info"}

\* The new sketch is what the host selection holds.
SketchSelected == selection = <<[kind |-> "Object", name |-> "Sketch"]>>

\* C21 (as claimed): success is reported, and the new sketch selected, only
\* when the transaction is committed, never after it was aborted, also when
\* commitTransaction itself raised; and an operation that returns without a
\* commit has reported the failure.
C21_SuccessOnlyIfCommitted ==
    /\ (Success \/ SketchSelected) => (txn = "committed")
    /\ (pc = "done" /\ txn # "committed") => (FailureReported /\ ~Success)

\* The transaction of the operation is closed.
Closed == txn \in {"committed", "aborted"}

\* One step of the transaction: openTransaction with a document, or the one
\* commitTransaction or abortTransaction that closes the open transaction.
Pairing ==
    (txn' # txn) =>
        \/ txn = "none" /\ txn' = "open" /\ doc
        \/ txn = "open" /\ txn' \in {"committed", "aborted"}

\* Without a document nothing was opened and nothing was touched.
Untouched ==
    /\ txn = "none"
    /\ muts = {}
    /\ objects = {}
    /\ removals = <<>>
    /\ issued = <<>>
    /\ geometry = <<>>
    /\ constraints = <<>>
    /\ temp_sketch = "None"
    /\ final_sketch = "None"

\* C22: transaction pairing.  The transaction changes only by being opened
\* (with a document) and then by being closed, once, by a commit or by an
\* abort: a closed transaction is never closed again, so no run both
\* commits and aborts; every return of an operation that opened it finds
\* it closed (success, no edges, cancellation, exception); and without a
\* document nothing is opened and nothing is mutated.
C22_TransactionPairing ==
    /\ [][Pairing]_vars
    /\ []((~doc) => Untouched)
    /\ []((doc /\ pc \in {"finally", "done"}) => Closed)

\* A commit that raised: the transaction was closed by the abort of the
\* except block alone, and the operation has returned.
C22_Witness ==
    /\ pc = "done"
    /\ raised = "commitTransaction"
    /\ txn = "aborted"
    /\ sketch_created

\* C23 (as claimed): removeObject is called for the temporary sketch at most
\* once in an operation, and only while the document holds the temporary
\* sketch: never for one already removed on the cancellation path or rolled
\* back by abortTransaction.
C23_TempSketchRemovedOnce ==
    /\ Len(removals) <= 1
    /\ \A k \in 1..Len(removals) : removals[k].present

\* The names of the coplanar edges of the selected object, in their order.
CoplanarNames ==
    [k \in 1..Len(coplanar_edges) |-> [kind |-> "Edge", n |-> coplanar_edges[k]]]

\* The count of the "[Step] Selected n coplanar edges." report is n.
StepCount(n) ==
    \E k \in 1..Len(info_display) :
        info_display[k] = Msg("Step", "Selected coplanar edges.", n)

\* C24 (as claimed): whatever self.collected_edges holds (nothing, the edges
\* of this object, the edges of another object), when select_coplanar_edges
\* has returned with a plane the selection is the coplanar edges of the
\* selected object, all of them and nothing else, and the count reported
\* is the number of edges selected.
C24_SelectionIsCoplanarEdges ==
    (pc = "returned" /\ Classified) =>
        /\ coplanar_edges = CoplanarFrom(shape.Edges, 1, plane_point, plane_normal)
        /\ selection = CoplanarNames
        /\ StepCount(Len(selection))

\* The references of the vertex map, group after group.
RECURSIVE AllRefs(_)
AllRefs(vm) == IF vm = <<>> THEN <<>> ELSE Head(vm).refs \o AllRefs(Tail(vm))

\* C25: after the emission of each edge and after the loop, as long as the
\* sketch holds its segments, the vertex map is a partition of the segment
\* endpoints: each (segment index, endpoint slot) of each emitted segment is
\* at exactly one place of exactly one group (it is there, and no two
\* places hold the same reference), the map refers to nothing else, no
\* group is empty, the sizes of the groups add up to twice the number of
\* segments; and the keys of two different groups are at least the merge
\* tolerance apart.
C25_VertexMapPartition ==
    (pc = "emit" \/ EmissionDone) =>
        LET refs == AllRefs(vertex_map)
            n == Len(geometry)
        IN  /\ Len(refs) = 2 * n
            /\ \A g \in 0..(n - 1) : \A slot \in 1..2 :
                  \E a \in 1..Len(refs) : refs[a] = <<g, slot>>
            /\ \A a, b \in 1..Len(refs) : a # b => refs[a] # refs[b]
            /\ \A a \in 1..Len(refs) :
                  refs[a][1] \in 0..(n - 1) /\ refs[a][2] \in 1..2
            /\ \A g \in 1..Len(vertex_map) : vertex_map[g].refs # <<>>
            /\ \A g, h \in 1..Len(vertex_map) :
                  g # h => ~WithinMerge(vertex_map[g].key, vertex_map[h].key)

\* C25's case: three segments were emitted; their six endpoints are in
\* fewer groups than endpoints, one of them within the merge tolerance of
\* the keys of two groups.
C25_Witness ==
    /\ EmissionDone
    /\ Len(geometry) = 3
    /\ RefCount(vertex_map) = 6
    /\ Len(vertex_map) \in 2..5
    /\ \E k \in 1..Len(edges) : \E e \in 1..2 :
          \E g, h \in 1..Len(vertex_map) :
              /\ g # h
              /\ WithinMerge(edges[k][e], vertex_map[g].key)
              /\ WithinMerge(edges[k][e], vertex_map[h].key)

====
